---- MODULE Spec2Model ----
(***************************************************************************)
(* Model of video_silence.py: the loudness estimator (audio_to_dB), the    *)
(* chunk scan (detect_audio_segments), the segment merger                  *)
(* (combine_segments), the grouper (group_segments_by_gap), the exporter   *)
(* (output_grouped_segments_as_videos) and the module-level pipeline.      *)
(*                                                                         *)
(* Time is counted in ticks of 0.1 s (the script's chunk_size), so that    *)
(* 0.3 s is 3 ticks and 10 s is 100 ticks; the audio track carries one     *)
(* mono sample per tick, an amplitude in hundredths of full scale.         *)
(* Decibel values are integers: 20*log10(rms) rounded down.                *)
(***************************************************************************)
EXTENDS Integers, Sequences, FiniteSets, TLC

VARIABLES
    pc,                    \* position of the module-level script
    video,                 \* the audio track of the source: one sample per tick
    silence_threshold,     \* detect_audio_segments parameter (dB)
    min_silence_duration,  \* detect_audio_segments parameter (ticks)
    chunk_size,            \* detect_audio_segments parameter (ticks)
    minimum_silence_new_clip, \* module constant handed to the grouper (ticks)
    segments,              \* detect_audio_segments local
    current_start,         \* detect_audio_segments local (None when no segment is open)
    silence_accumulator,   \* detect_audio_segments local
    chunk_count,           \* detect_audio_segments local
    audio_segments,        \* module-level result of detect_audio_segments
    grouped_segments,      \* module-level result of group_segments_by_gap
    export_i,              \* loop index of output_grouped_segments_as_videos
    files,                 \* the files written so far, in order
    combine_in,            \* argument of combine_segments
    combine_gap,           \* argument max_gap of combine_segments
    combined_once,         \* combine_segments(combine_in, combine_gap)
    combined_twice,        \* combine_segments applied to its own result
    progress,              \* detect_audio_segments local: the progress last printed
    chunks,                \* the (start, end) spans handed to audio.subclip, in order
    failed_group,          \* the group (from 1) whose export raised, 0 when none did
    loud_frames,           \* a chunk of samples given to audio_to_dB
    loud_divisor,          \* 1/k of the attenuation factor k applied to loud_frames
    dB_original,           \* audio_to_dB(loud_frames)
    dB_attenuated          \* audio_to_dB of loud_frames scaled by k

vars == <<pc, video, silence_threshold, min_silence_duration, chunk_size,
          minimum_silence_new_clip, segments, current_start,
          silence_accumulator, chunk_count, audio_segments, grouped_segments,
          export_i, files, combine_in, combine_gap, combined_once,
          combined_twice, progress, chunks, failed_group, loud_frames,
          loud_divisor, dB_original, dB_attenuated>>

detectVars == <<segments, current_start, silence_accumulator, chunk_count,
                progress, chunks>>
configVars == <<video, silence_threshold, min_silence_duration, chunk_size,
                minimum_silence_new_clip>>
combineVars == <<combine_in, combine_gap, combined_once, combined_twice>>
loudnessVars == <<loud_frames, loud_divisor, dB_original, dB_attenuated>>

------------------------------------------------------------------------------
(* Bounds of the model *)

\* longest audio track enumerated sample by sample, in ticks
MaxDuration == 4
\* largest chunk_size, in ticks
MaxChunkSize == 2
\* largest min_silence_duration, in ticks
MaxMinSilence == 2
\* largest grouping threshold of the pipeline, in ticks
MaxNewClipGap == 2
\* largest time stamp of the segment lists given to the merger and the grouper
MaxTime == 3
\* longest segment list given to the merger and the grouper
MaxSegments == 3
\* largest max_gap / long_gap_threshold given to the merger and the grouper
MaxGap == 2
\* longest chunk of samples given to audio_to_dB on its own
MaxFrames == 3

\* sample amplitudes, in hundredths of full scale: digital silence, -40 dB, -20 dB
Amplitudes == {0, 1, 10}
\* silence thresholds (dB): below the rms floor, the script's -30, and exactly
\* the loudness of a chunk of amplitude 10
Thresholds == {-250, -30, -20}

\* current_start = None
None == -1

------------------------------------------------------------------------------
(* Sequences *)

RECURSIVE SeqsUpTo(_, _)
\* all sequences over S of length at most n
SeqsUpTo(S, n) ==
    IF n = 0 THEN {<< >>}
    ELSE LET shorter == SeqsUpTo(S, n - 1)
         IN  shorter \cup {Append(q, x) : q \in {r \in shorter : Len(r) = n - 1}, x \in S}

RECURSIVE Flatten(_)
\* concatenation of a sequence of sequences
Flatten(ss) == IF ss = << >> THEN << >> ELSE Head(ss) \o Flatten(Tail(ss))

Max(a, b) == IF a >= b THEN a ELSE b

------------------------------------------------------------------------------
(* audio_to_dB, lines 12-33 *)

\* exponent of the rms floor 1e-10 (line 27)
RmsFloorExp == 10

\* 10^(j/10) for j = 0..9, times 1000, rounded up
Pow10Tenths == <<1000, 1259, 1585, 1996, 2512, 3163, 3982, 5012, 6310, 7944>>

RECURSIVE Log10Times10(_, _)
\* floor(10 * log10(num / den)) for num, den > 0
Log10Times10(num, den) ==
    IF num >= 10 * den THEN 10 + Log10Times10(num, 10 * den)
    ELSE IF num < den THEN Log10Times10(10 * num, den) - 10
    ELSE CHOOSE j \in 0..9 :
            /\ Pow10Tenths[j + 1] * den <= 1000 * num
            /\ j < 9 => Pow10Tenths[j + 2] * den > 1000 * num

RECURSIVE SumSquares(_)
SumSquares(frames) ==
    IF frames = << >> THEN 0
    ELSE Head(frames) * Head(frames) + SumSquares(Tail(frames))

\* a variant of line 30 with the sign of the logarithm lost
audio_to_dB_negated(frames) ==
    IF SumSquares(frames) = 0
    THEN 20 * RmsFloorExp
    ELSE 0 - Log10Times10(SumSquares(frames), Len(frames) * 100 * 100)

\* audio_to_dB of a non-empty chunk of samples: rms = sqrt(mean(frames^2)),
\* a zero rms is replaced by 1e-10, dB = 20*log10(rms) = 10*log10(mean(frames^2))
audio_to_dB(frames) ==
    IF SumSquares(frames) = 0
    THEN 20 * (0 - RmsFloorExp)
    ELSE Log10Times10(SumSquares(frames), Len(frames) * 100 * 100)

------------------------------------------------------------------------------
(* detect_audio_segments, lines 35-85 *)

\* audio.duration (line 47)
Duration(v) == Len(v)

CeilDiv(a, b) == (a + b - 1) \div b

\* total_chunks = np.ceil(duration / chunk_size) (line 53), for chunk_size # 0;
\* for a positive chunk_size also the number of elements of
\* np.arange(0, duration, chunk_size) (line 56)
total_chunks(v, cs) ==
    IF cs > 0 THEN CeilDiv(Duration(v), cs) ELSE 0 - (Duration(v) \div (0 - cs))

\* a variant of np.arange that leaves out a last, shorter chunk
ArangeLenFloor(v, cs) == IF cs > 0 THEN Duration(v) \div cs ELSE 0

\* the number of elements of np.arange(0, duration, chunk_size) (line 56), for
\* chunk_size # 0: none when the step is negative
ArangeLen(v, cs) == IF cs > 0 THEN CeilDiv(Duration(v), cs) ELSE 0

\* progress = (chunk_count / total_chunks) * 100 (line 78), in hundredths of a
\* percent as line 79 prints it, rounded to the nearest
Progress(count, total) == (2 * 10000 * count + total) \div (2 * total)

\* the k-th element (from 0) of np.arange(0, duration, chunk_size)
ArangeAt(k, cs) == k * cs

\* end = start + chunk_size, cut at duration (lines 57-59)
ChunkEnd(start, v, cs) ==
    IF start + cs > Duration(v) THEN Duration(v) ELSE start + cs

\* audio.subclip(start, end) (line 60): the samples of [start, end)
Subclip(v, start, end) == SubSeq(v, start + 1, end)

\* dB of the chunk that starts at `start` (lines 57-61)
ChunkDB(v, start, cs) == audio_to_dB(Subclip(v, start, ChunkEnd(start, v, cs)))

\* a variant of line 62 that also counts a chunk exactly at the threshold as silent
IsSilentInclusive(dB, threshold) == dB <= threshold

\* a variant of line 62 with the comparison reversed
IsSilentReversed(dB, threshold) == dB > threshold

\* is_silent = dB < silence_threshold (line 62)
IsSilent(dB, threshold) == dB < threshold

\* a variant of line 66 that closes only when the accumulator exceeds the minimum
ScanSilentChunkStrict ==
    LET start == ArangeAt(chunk_count, chunk_size)
        acc   == silence_accumulator + chunk_size
    IN  /\ pc = "scan"
        /\ chunk_size # 0
        /\ chunk_count < ArangeLen(video, chunk_size)
        /\ IsSilent(ChunkDB(video, start, chunk_size), silence_threshold)
        /\ IF current_start # None /\ acc > min_silence_duration
           THEN /\ segments' = Append(segments, <<current_start, start>>)
                /\ current_start' = None
                /\ silence_accumulator' = 0
           ELSE /\ silence_accumulator' = acc
                /\ UNCHANGED <<segments, current_start>>
        /\ chunk_count' = chunk_count + 1
        /\ chunks' = Append(chunks, <<start, ChunkEnd(start, video, chunk_size)>>)
        /\ progress' = Progress(chunk_count + 1, total_chunks(video, chunk_size))
        /\ UNCHANGED <<pc, configVars, audio_segments, grouped_segments,
                       export_i, files, combineVars, failed_group, loudnessVars>>

\* a variant of line 68 that closes the segment at start + chunk_size
ScanSilentChunkCloseAtEnd ==
    LET start == ArangeAt(chunk_count, chunk_size)
        acc   == silence_accumulator + chunk_size
    IN  /\ pc = "scan"
        /\ chunk_size # 0
        /\ chunk_count < ArangeLen(video, chunk_size)
        /\ IsSilent(ChunkDB(video, start, chunk_size), silence_threshold)
        /\ IF current_start # None /\ acc >= min_silence_duration
           THEN /\ segments' = Append(segments, <<current_start, start + chunk_size>>)
                /\ current_start' = None
                /\ silence_accumulator' = 0
           ELSE /\ silence_accumulator' = acc
                /\ UNCHANGED <<segments, current_start>>
        /\ chunk_count' = chunk_count + 1
        /\ chunks' = Append(chunks, <<start, ChunkEnd(start, video, chunk_size)>>)
        /\ progress' = Progress(chunk_count + 1, total_chunks(video, chunk_size))
        /\ UNCHANGED <<pc, configVars, audio_segments, grouped_segments,
                       export_i, files, combineVars, failed_group, loudnessVars>>

\* one iteration of the loop of lines 56-79 on a silent chunk (lines 64-70)
ScanSilentChunk ==
    LET start == ArangeAt(chunk_count, chunk_size)
        acc   == silence_accumulator + chunk_size
    IN  /\ pc = "scan"
        /\ chunk_size # 0
        /\ chunk_count < ArangeLen(video, chunk_size)
        /\ IsSilent(ChunkDB(video, start, chunk_size), silence_threshold)
        /\ IF current_start # None /\ acc >= min_silence_duration
           THEN /\ segments' = Append(segments, <<current_start, start>>)
                /\ current_start' = None
                /\ silence_accumulator' = 0
           ELSE /\ silence_accumulator' = acc
                /\ UNCHANGED <<segments, current_start>>
        /\ chunk_count' = chunk_count + 1
        /\ chunks' = Append(chunks, <<start, ChunkEnd(start, video, chunk_size)>>)
        /\ progress' = Progress(chunk_count + 1, total_chunks(video, chunk_size))
        /\ UNCHANGED <<pc, configVars, audio_segments, grouped_segments,
                       export_i, files, combineVars, failed_group, loudnessVars>>

\* a variant of lines 73-74 that restarts the segment at every non-silent chunk
ScanLoudChunkRestart ==
    LET start == ArangeAt(chunk_count, chunk_size)
    IN  /\ pc = "scan"
        /\ chunk_size # 0
        /\ chunk_count < ArangeLen(video, chunk_size)
        /\ ~IsSilent(ChunkDB(video, start, chunk_size), silence_threshold)
        /\ silence_accumulator' = 0
        /\ current_start' = start
        /\ chunk_count' = chunk_count + 1
        /\ chunks' = Append(chunks, <<start, ChunkEnd(start, video, chunk_size)>>)
        /\ progress' = Progress(chunk_count + 1, total_chunks(video, chunk_size))
        /\ UNCHANGED <<pc, configVars, segments, audio_segments,
                       grouped_segments, export_i, files, combineVars,
                       failed_group, loudnessVars>>

\* a variant without line 72: the accumulator survives a non-silent chunk
ScanLoudChunkNoReset ==
    LET start == ArangeAt(chunk_count, chunk_size)
    IN  /\ pc = "scan"
        /\ chunk_size # 0
        /\ chunk_count < ArangeLen(video, chunk_size)
        /\ ~IsSilent(ChunkDB(video, start, chunk_size), silence_threshold)
        /\ silence_accumulator' = silence_accumulator
        /\ current_start' = IF current_start = None THEN start ELSE current_start
        /\ chunk_count' = chunk_count + 1
        /\ chunks' = Append(chunks, <<start, ChunkEnd(start, video, chunk_size)>>)
        /\ progress' = Progress(chunk_count + 1, total_chunks(video, chunk_size))
        /\ UNCHANGED <<pc, configVars, segments, audio_segments,
                       grouped_segments, export_i, files, combineVars,
                       failed_group, loudnessVars>>

\* one iteration of the loop of lines 56-79 on a non-silent chunk (lines 71-74)
ScanLoudChunk ==
    LET start == ArangeAt(chunk_count, chunk_size)
    IN  /\ pc = "scan"
        /\ chunk_size # 0
        /\ chunk_count < ArangeLen(video, chunk_size)
        /\ ~IsSilent(ChunkDB(video, start, chunk_size), silence_threshold)
        /\ silence_accumulator' = 0
        /\ current_start' = IF current_start = None THEN start ELSE current_start
        /\ chunk_count' = chunk_count + 1
        /\ chunks' = Append(chunks, <<start, ChunkEnd(start, video, chunk_size)>>)
        /\ progress' = Progress(chunk_count + 1, total_chunks(video, chunk_size))
        /\ UNCHANGED <<pc, configVars, segments, audio_segments,
                       grouped_segments, export_i, files, combineVars,
                       failed_group, loudnessVars>>

\* a variant of lines 81-83 without the test of line 81
FinalSegmentsAlways(segs, cur, duration) == Append(segs, <<cur, duration>>)

\* lines 81-83: the final segment, if one is open
FinalSegments(segs, cur, duration) ==
    IF cur # None THEN Append(segs, <<cur, duration>>) ELSE segs

\* the loop is exhausted: lines 81-85, and the assignment of line 181
DetectReturn ==
    /\ pc = "scan"
    /\ chunk_size # 0
    /\ chunk_count >= ArangeLen(video, chunk_size)
    /\ segments' = FinalSegments(segments, current_start, Duration(video))
    /\ audio_segments' = segments'
    /\ pc' = "group"
    /\ UNCHANGED <<configVars, current_start, silence_accumulator, chunk_count,
                   progress, chunks, grouped_segments, export_i, files,
                   combineVars, failed_group, loudnessVars>>

------------------------------------------------------------------------------
(* combine_segments, lines 88-115 *)

\* max_gap default of combine_segments (line 88): 0.5 s, in ticks
DefaultMaxGap == 5

RECURSIVE CombineLoop(_, _, _)
\* the loop of lines 103-113 over the segments still to visit
CombineLoop(combined_segments, rest, max_gap) ==
    IF rest = << >> THEN combined_segments
    ELSE LET cur      == Head(rest)
             n        == Len(combined_segments)
             last_end == combined_segments[n][2]
         IN  IF cur[1] - last_end <= max_gap
             THEN CombineLoop(
                    [combined_segments EXCEPT ![n] = <<combined_segments[n][1], cur[2]>>],
                    Tail(rest), max_gap)
             ELSE CombineLoop(Append(combined_segments, cur), Tail(rest), max_gap)

RECURSIVE CombineLoopStrict(_, _, _)
CombineLoopStrict(combined_segments, rest, max_gap) ==
    IF rest = << >> THEN combined_segments
    ELSE LET cur      == Head(rest)
             n        == Len(combined_segments)
             last_end == combined_segments[n][2]
         IN  IF cur[1] - last_end < max_gap
             THEN CombineLoopStrict(
                    [combined_segments EXCEPT ![n] = <<combined_segments[n][1], cur[2]>>],
                    Tail(rest), max_gap)
             ELSE CombineLoopStrict(Append(combined_segments, cur), Tail(rest), max_gap)

\* a variant of line 108 that merges only gaps strictly below max_gap
combine_segments_strict(segs, max_gap) ==
    IF segs = << >> THEN << >>
    ELSE CombineLoopStrict(<<Head(segs)>>, Tail(segs), max_gap)

RECURSIVE CombineLoopNoExtend(_, _, _)
CombineLoopNoExtend(combined_segments, rest, max_gap) ==
    IF rest = << >> THEN combined_segments
    ELSE LET cur      == Head(rest)
             n        == Len(combined_segments)
             last_end == combined_segments[n][2]
         IN  IF cur[1] - last_end <= max_gap
             THEN CombineLoopNoExtend(combined_segments, Tail(rest), max_gap)
             ELSE CombineLoopNoExtend(Append(combined_segments, cur), Tail(rest), max_gap)

\* a variant of line 110 that leaves the last combined segment as it is
combine_segments_no_extend(segs, max_gap) ==
    IF segs = << >> THEN << >>
    ELSE CombineLoopNoExtend(<<Head(segs)>>, Tail(segs), max_gap)

\* a variant of line 103 whose loop starts at segments[2:]
combine_segments_skip_second(segs, max_gap) ==
    IF segs = << >> THEN << >>
    ELSE CombineLoop(<<Head(segs)>>,
                     IF Len(segs) >= 2 THEN Tail(Tail(segs)) ELSE << >>, max_gap)

combine_segments(segs, max_gap) ==
    IF segs = << >> THEN << >>
    ELSE CombineLoop(<<Head(segs)>>, Tail(segs), max_gap)

------------------------------------------------------------------------------
(* group_segments_by_gap, lines 117-149 *)

RECURSIVE GroupLoop(_, _, _, _, _)
\* the loop of lines 128-143 from index i (counted from 0) on, then lines 145-149
GroupLoop(segs, i, grouped, current_group, long_gap_threshold) ==
    IF i >= Len(segs)
    THEN IF current_group # << >> THEN Append(grouped, current_group) ELSE grouped
    ELSE LET cur == segs[i + 1]
         IN  IF i = 0
             THEN GroupLoop(segs, i + 1, grouped, Append(current_group, cur),
                            long_gap_threshold)
             ELSE LET previous_segment == segs[i]
                      gap == cur[1] - previous_segment[2]
                  IN  IF gap > long_gap_threshold /\ current_group # << >>
                      THEN GroupLoop(segs, i + 1, Append(grouped, current_group),
                                     <<cur>>, long_gap_threshold)
                      ELSE GroupLoop(segs, i + 1, grouped,
                                     Append(current_group, cur), long_gap_threshold)

RECURSIVE GroupLoopFromGroupStart(_, _, _, _, _)
GroupLoopFromGroupStart(segs, i, grouped, current_group, long_gap_threshold) ==
    IF i >= Len(segs)
    THEN IF current_group # << >> THEN Append(grouped, current_group) ELSE grouped
    ELSE LET cur == segs[i + 1]
         IN  IF i = 0
             THEN GroupLoopFromGroupStart(segs, i + 1, grouped,
                                          Append(current_group, cur),
                                          long_gap_threshold)
             ELSE LET previous_segment == current_group[1]
                      gap == cur[1] - previous_segment[2]
                  IN  IF gap > long_gap_threshold /\ current_group # << >>
                      THEN GroupLoopFromGroupStart(segs, i + 1,
                                                   Append(grouped, current_group),
                                                   <<cur>>, long_gap_threshold)
                      ELSE GroupLoopFromGroupStart(segs, i + 1, grouped,
                                                   Append(current_group, cur),
                                                   long_gap_threshold)

\* a variant of line 134 that measures the gap against the first segment of
\* the current group
group_segments_from_group_start(segs, long_gap_threshold) ==
    GroupLoopFromGroupStart(segs, 0, << >>, << >>, long_gap_threshold)

RECURSIVE GroupLoopInclusive(_, _, _, _, _)
GroupLoopInclusive(segs, i, grouped, current_group, long_gap_threshold) ==
    IF i >= Len(segs)
    THEN IF current_group # << >> THEN Append(grouped, current_group) ELSE grouped
    ELSE LET cur == segs[i + 1]
         IN  IF i = 0
             THEN GroupLoopInclusive(segs, i + 1, grouped, Append(current_group, cur),
                                     long_gap_threshold)
             ELSE LET previous_segment == segs[i]
                      gap == cur[1] - previous_segment[2]
                  IN  IF gap >= long_gap_threshold /\ current_group # << >>
                      THEN GroupLoopInclusive(segs, i + 1, Append(grouped, current_group),
                                              <<cur>>, long_gap_threshold)
                      ELSE GroupLoopInclusive(segs, i + 1, grouped,
                                              Append(current_group, cur),
                                              long_gap_threshold)

\* a variant of line 138 that also splits at a gap equal to the threshold
group_segments_inclusive(segs, long_gap_threshold) ==
    GroupLoopInclusive(segs, 0, << >>, << >>, long_gap_threshold)

\* a variant without lines 145-147: the group still open at the end is lost
group_segments_no_flush(segs, long_gap_threshold) ==
    LET all == GroupLoop(segs, 0, << >>, << >>, long_gap_threshold)
    IN  IF all = << >> THEN << >> ELSE SubSeq(all, 1, Len(all) - 1)

\* a variant of lines 145-147 that appends the last group without testing it
group_segments_always_flush(segs, long_gap_threshold) ==
    IF segs = << >> THEN << << >> >>
    ELSE GroupLoop(segs, 0, << >>, << >>, long_gap_threshold)

group_segments_by_gap(segs, long_gap_threshold) ==
    GroupLoop(segs, 0, << >>, << >>, long_gap_threshold)

\* line 183
GroupCall ==
    /\ pc = "group"
    /\ grouped_segments' = group_segments_by_gap(audio_segments, minimum_silence_new_clip)
    /\ export_i' = 0
    /\ pc' = "export"
    /\ UNCHANGED <<configVars, detectVars, audio_segments, files, combineVars,
                   failed_group, loudnessVars>>

------------------------------------------------------------------------------
(* output_grouped_segments_as_videos, lines 152-176 *)

RECURSIVE DecimalDigits(_)
\* the decimal digits of n >= 0, most significant first
DecimalDigits(n) ==
    IF n < 10 THEN <<n>> ELSE Append(DecimalDigits(n \div 10), n % 10)

RECURSIVE ZeroPad(_, _)
ZeroPad(digits, width) ==
    IF Len(digits) >= width THEN digits ELSE ZeroPad(<<0>> \o digits, width)

\* the format specification 03d of line 173
Format03d(n) == ZeroPad(DecimalDigits(n), 3)

\* a variant of line 173 that numbers the files from 0
OutputFilenameFromZero(i) == <<"output_video_group_", Format03d(i), ".mp4">>

\* output_filename of line 173 for loop index i (counted from 0)
OutputFilename(i) == <<"output_video_group_", Format03d(i + 1), ".mp4">>

\* video.subclip(start, end) of line 167: a reference to that span of the source
VideoSubclip(seg) == <<"subclip", seg[1], seg[2]>>

\* lines 167-170: one sub-clip per segment of the group, concatenated in order
CombinedClip(group) == [k \in 1..Len(group) |-> VideoSubclip(group[k])]

\* one iteration of the loop of lines 165-176
ExportGroup ==
    /\ pc = "export"
    /\ export_i < Len(grouped_segments)
    /\ files' = Append(files, [name  |-> OutputFilename(export_i),
                               clips |-> CombinedClip(grouped_segments[export_i + 1])])
    /\ export_i' = export_i + 1
    /\ UNCHANGED <<pc, configVars, detectVars, audio_segments, grouped_segments,
                   combineVars, failed_group, loudnessVars>>

\* the loop of lines 165-176 is exhausted; the script ends
ExportReturn ==
    /\ pc = "export"
    /\ export_i >= Len(grouped_segments)
    /\ pc' = "done"
    /\ UNCHANGED <<configVars, detectVars, audio_segments, grouped_segments,
                   export_i, files, combineVars, failed_group, loudnessVars>>

------------------------------------------------------------------------------
(* The module-level script, lines 179-187 *)

\* the all-silent 10-second track of Scenario D (100 ticks of digital silence)
ScenarioDVideo == [t \in 1..100 |-> 0]

\* the audio tracks: every track of at most MaxDuration ticks, and Scenario D's
Videos == SeqsUpTo(Amplitudes, MaxDuration) \cup {ScenarioDVideo}

\* the state when detect_audio_segments is entered at line 181 (lines 46-54)
Init ==
    /\ pc = "scan"
    /\ video \in Videos
    /\ silence_threshold \in Thresholds
    /\ min_silence_duration \in 0..MaxMinSilence
    /\ chunk_size \in 1..MaxChunkSize
    /\ minimum_silence_new_clip \in 0..MaxNewClipGap
    /\ segments = << >>
    /\ current_start = None
    /\ silence_accumulator = 0
    /\ chunk_count = 0
    /\ audio_segments = << >>
    /\ grouped_segments = << >>
    /\ export_i = 0
    /\ files = << >>
    /\ combine_in = << >>
    /\ combine_gap = 0
    /\ combined_once = << >>
    /\ combined_twice = << >>
    /\ progress = None
    /\ chunks = << >>
    /\ failed_group = 0
    /\ loud_frames = << >>
    /\ loud_divisor = 1
    /\ dB_original = None
    /\ dB_attenuated = None

Next ==
    \/ ScanSilentChunk
    \/ ScanLoudChunk
    \/ DetectReturn
    \/ GroupCall
    \/ ExportGroup
    \/ ExportReturn

Spec == Init /\ [][Next]_vars

------------------------------------------------------------------------------
(* The merger and the grouper on segment lists of their own *)

\* time intervals (start, end) with 0 <= start <= end <= MaxTime
Intervals == {<<s, e>> : s \in 0..MaxTime, e \in 0..MaxTime} \ 
             {<<s, e>> \in (0..MaxTime) \X (0..MaxTime) : s > e}

\* the lists of Scenarios A, B and C, in ticks of 0.1 s
ScenarioA == <<<<0, 20>>, <<23, 50>>>>
ScenarioB == <<<<0, 50>>, <<200, 250>>>>
ScenarioC == <<<<0, 50>>, <<80, 120>>>>

\* twelve segments one tick long and one tick apart
TwelveSegments == [k \in 1..12 |-> <<2 * k - 2, 2 * k - 1>>]

\* a segment list and a gap: every list of at most MaxSegments intervals, in
\* any order, with every gap of -1..MaxGap, and the three scenarios
SegmentInputs ==
    (SeqsUpTo(Intervals, MaxSegments) \X (-1..MaxGap))
    \cup {<<ScenarioA, 5>>, <<ScenarioB, 100>>, <<ScenarioC, 100>>,
          <<TwelveSegments, 0>>, <<TwelveSegments, 1>>}

\* combine_segments is about to be called on a list of its own
InitCombine ==
    /\ pc = "combine"
    /\ \E in \in SegmentInputs : combine_in = in[1] /\ combine_gap = in[2]
    /\ combined_once = << >>
    /\ combined_twice = << >>
    /\ video = << >>
    /\ silence_threshold = 0
    /\ min_silence_duration = 0
    /\ chunk_size = 1
    /\ minimum_silence_new_clip = 0
    /\ segments = << >>
    /\ current_start = None
    /\ silence_accumulator = 0
    /\ chunk_count = 0
    /\ audio_segments = << >>
    /\ grouped_segments = << >>
    /\ export_i = 0
    /\ files = << >>
    /\ progress = None
    /\ chunks = << >>
    /\ failed_group = 0
    /\ loud_frames = << >>
    /\ loud_divisor = 1
    /\ dB_original = None
    /\ dB_attenuated = None

\* combine_segments(combine_in, combine_gap)
CombineCall ==
    /\ pc = "combine"
    /\ combined_once' = combine_segments(combine_in, combine_gap)
    /\ pc' = "combined"
    /\ UNCHANGED <<configVars, detectVars, audio_segments, grouped_segments,
                   export_i, files, combine_in, combine_gap, combined_twice,
                   failed_group, loudnessVars>>

\* combine_segments applied to its own result, with the same gap
CombineAgain ==
    /\ pc = "combined"
    /\ combined_twice' = combine_segments(combined_once, combine_gap)
    /\ pc' = "recombined"
    /\ UNCHANGED <<configVars, detectVars, audio_segments, grouped_segments,
                   export_i, files, combine_in, combine_gap, combined_once,
                   failed_group, loudnessVars>>

NextCombine == CombineCall \/ CombineAgain

SpecCombine == InitCombine /\ [][NextCombine]_vars

\* group_segments_by_gap is about to be called (line 183) on a list of its own,
\* and its groups are then exported
InitGroup ==
    /\ pc = "group"
    /\ \E in \in SegmentInputs :
          audio_segments = in[1] /\ minimum_silence_new_clip = in[2]
    /\ video = << >>
    /\ silence_threshold = 0
    /\ min_silence_duration = 0
    /\ chunk_size = 1
    /\ segments = << >>
    /\ current_start = None
    /\ silence_accumulator = 0
    /\ chunk_count = 0
    /\ grouped_segments = << >>
    /\ export_i = 0
    /\ files = << >>
    /\ combine_in = << >>
    /\ combine_gap = 0
    /\ combined_once = << >>
    /\ combined_twice = << >>
    /\ progress = None
    /\ chunks = << >>
    /\ failed_group = 0
    /\ loud_frames = << >>
    /\ loud_divisor = 1
    /\ dB_original = None
    /\ dB_attenuated = None

NextGroup == GroupCall \/ ExportGroup \/ ExportReturn

SpecGroup == InitGroup /\ [][NextGroup]_vars

------------------------------------------------------------------------------
(* Properties of the pipeline (specification Spec) *)

ScanDone == pc \in {"group", "export", "done"}
GroupDone == pc \in {"export", "done"}

\* the start times of the chunks of the scan
ChunkStarts == {ArangeAt(k, chunk_size) : k \in 0..(total_chunks(video, chunk_size) - 1)}

\* every chunk of the track has a loudness >= the threshold
AllChunksLoud ==
    \A start \in ChunkStarts : ChunkDB(video, start, chunk_size) >= silence_threshold

\* every chunk of the track has a loudness < the threshold
AllChunksQuiet ==
    \A start \in ChunkStarts : ChunkDB(video, start, chunk_size) < silence_threshold

\* C1: in a full run, the list handed to the grouper (the concatenation of the
\* groups it returned) is the merger's output for the detector's raw segments:
\* raw segments at most the merge max gap apart are combined before grouping.
C1_GrouperGetsMergedSegments ==
    GroupDone =>
        Flatten(grouped_segments) = combine_segments(audio_segments, DefaultMaxGap)

\* C2: for a track of positive duration whose chunks are all classified
\* non-silent (loudness >= threshold), detect returns exactly [(0, duration)].
C2_AllLoudOneSegment ==
    (ScanDone /\ Duration(video) > 0 /\ AllChunksLoud)
        => audio_segments = << <<0, Duration(video)>> >>

\* a returned all-loud track whose last chunk is cut at the end of the media,
\* with a chunk exactly at the threshold
C2_Witness ==
    /\ pc = "group"
    /\ Duration(video) = 3
    /\ chunk_size = 2
    /\ AllChunksLoud
    /\ ChunkDB(video, 0, chunk_size) = silence_threshold
    /\ audio_segments = << <<0, 3>> >>

\* C3: a media without non-silent content (every chunk silent, or duration 0)
\* gives no segment at any point of the scan, zero groups and zero files.
C3_NoContentNoOutput ==
    (Duration(video) = 0 \/ AllChunksQuiet) =>
        /\ segments = << >>
        /\ audio_segments = << >>
        /\ grouped_segments = << >>
        /\ files = << >>

\* a finished run over a silent track of several chunks
C3_Witness ==
    /\ pc = "done"
    /\ Duration(video) >= 3
    /\ AllChunksQuiet
    /\ chunk_count = total_chunks(video, chunk_size)
    /\ files = << >>

\* a finished run over a track of zero duration
C3_WitnessEmpty ==
    pc = "done" /\ Duration(video) = 0 /\ files = << >>

\* the loudness of the whole track of Scenario D
ScenarioDLoudness == audio_to_dB(ScenarioDVideo)

\* C4 as stated: Scenario D with a threshold below the track's loudness gives
\* an empty raw segment list and no output file.
C4_ScenarioD_ThresholdBelow ==
    (video = ScenarioDVideo /\ chunk_size = 1 /\ silence_threshold < ScenarioDLoudness)
        => /\ ScanDone => audio_segments = << >>
           /\ files = << >>

\* C4 amended: Scenario D with a threshold above the track's loudness gives an
\* empty raw segment list and no output file.
C4_ScenarioD_ThresholdAbove ==
    (video = ScenarioDVideo /\ chunk_size = 1 /\ silence_threshold > ScenarioDLoudness)
        => /\ segments = << >>
           /\ ScanDone => audio_segments = << >>
           /\ files = << >>

\* Scenario D run to its end: 100 chunks scanned, nothing written
C4_Witness ==
    /\ video = ScenarioDVideo
    /\ chunk_size = 1
    /\ silence_threshold > ScenarioDLoudness
    /\ pc = "done"
    /\ chunk_count = 100
    /\ audio_segments = << >>
    /\ files = << >>

------------------------------------------------------------------------------
(* Properties of combine_segments (specification SpecCombine) *)

\* each segment ends no later than the next one starts
SortedNonOverlapping(S) ==
    \A i \in 1..(Len(S) - 1) : S[i][2] <= S[i + 1][1]

\* the gap between input segment i and its successor
GapAfter(S, i) == S[i + 1][1] - S[i][2]

\* the positions of S after which the gap is longer than g
CutsOf(S, g) == {i \in 1..(Len(S) - 1) : GapAfter(S, i) > g}

\* the block of input position i: one more than the number of cuts before it
BlockOf(S, g, i) == 1 + Cardinality({j \in CutsOf(S, g) : j < i})

\* the input positions of block k
BlockMembers(S, g, k) == {i \in 1..Len(S) : BlockOf(S, g, i) = k}

SetMin(X) == CHOOSE x \in X : \A y \in X : x <= y
SetMax(X) == CHOOSE x \in X : \A y \in X : x >= y

\* segment a lies within segment b
Within(a, b) == b[1] <= a[1] /\ a[2] <= b[2]

\* the unit cells [t, t+1) of a segment, of a list
CellsOf(seg) == seg[1]..(seg[2] - 1)
CellsOfList(S) == UNION {CellsOf(S[i]) : i \in 1..Len(S)}

\* the cells of the gaps of S that are at most g long
SmallGapCells(S, g) ==
    UNION {S[i][2]..(S[i + 1][1] - 1) : i \in (1..(Len(S) - 1)) \ CutsOf(S, g)}

CombineDone == pc \in {"combined", "recombined"}

C5_WitnessScenarioA ==
    pc = "combined" /\ combine_in = ScenarioA /\ combined_once = << <<0, 50>> >>

C7_MergeIdempotent ==
    pc = "recombined" => combined_twice = combined_once

\* a second merge of a list that the first merge shortened to two segments
C7_Witness ==
    /\ pc = "recombined"
    /\ Len(combine_in) = 3
    /\ Len(combined_once) = 2
    /\ combined_twice = combined_once

------------------------------------------------------------------------------
(* Properties of group_segments_by_gap and of the export (specification SpecGroup) *)

RECURSIVE LenSum(_, _)
\* the number of segments in the first k groups
LenSum(groups, k) == IF k = 0 THEN 0 ELSE LenSum(groups, k - 1) + Len(groups[k])

\* the group that holds the i-th segment of the concatenation of the groups
GroupOf(groups, i) ==
    CHOOSE k \in 1..Len(groups) : LenSum(groups, k - 1) < i /\ i <= LenSum(groups, k)

\* C8: consecutive input segments are in different groups iff their gap is
\* strictly greater than the threshold (an equal gap keeps them together), so
\* a non-empty input yields 1 + (number of such gaps) groups; Scenario B gives
\* two groups and Scenario C one.
C8_SplitIffGapGreater ==
    GroupDone =>
        /\ LenSum(grouped_segments, Len(grouped_segments)) = Len(audio_segments)
        /\ \A i \in 1..(Len(audio_segments) - 1) :
              (GroupOf(grouped_segments, i) # GroupOf(grouped_segments, i + 1))
                 <=> (GapAfter(audio_segments, i) > minimum_silence_new_clip)
        /\ audio_segments # << >> =>
              Len(grouped_segments) =
                 1 + Cardinality(CutsOf(audio_segments, minimum_silence_new_clip))
        /\ (audio_segments = ScenarioB /\ minimum_silence_new_clip = 100)
              => grouped_segments = << << <<0, 50>> >>, << <<200, 250>> >> >>
        /\ (audio_segments = ScenarioC /\ minimum_silence_new_clip = 100)
              => grouped_segments = << << <<0, 50>>, <<80, 120>> >> >>

\* three segments, a gap equal to the threshold (kept together) and a longer
\* one (split)
C8_Witness ==
    /\ pc = "export"
    /\ Len(audio_segments) = 3
    /\ minimum_silence_new_clip > 0
    /\ GapAfter(audio_segments, 1) = minimum_silence_new_clip
    /\ GapAfter(audio_segments, 2) > minimum_silence_new_clip
    /\ Len(grouped_segments) = 2
    /\ Len(grouped_segments[1]) = 2

\* C9: every group is non-empty and the groups, concatenated in order, are
\* exactly the input list (the last group included); an empty input gives no
\* group.
C9_GroupsPartitionInput ==
    GroupDone =>
        /\ \A k \in 1..Len(grouped_segments) : grouped_segments[k] # << >>
        /\ Flatten(grouped_segments) = audio_segments
        /\ audio_segments = << >> => grouped_segments = << >>

\* an input of three segments split into two groups, the last one flushed
C9_Witness ==
    /\ pc = "export"
    /\ Len(audio_segments) = 3
    /\ Len(grouped_segments) = 2
    /\ grouped_segments[2] = <<audio_segments[3]>>
    /\ Flatten(grouped_segments) = audio_segments

\* the index k as three decimal digits (k < 1000)
ThreeDigits(k) == <<k \div 100, (k \div 10) % 10, k % 10>>

\* C10: export writes one file per group in group order: the k-th file is
\* named with index k zero-padded to three digits and holds one sub-clip per
\* segment of the k-th group, in segment order; the names are pairwise distinct.
C10_OneFilePerGroup ==
    /\ Len(files) = (IF GroupDone THEN export_i ELSE 0)
    /\ Len(files) <= Len(grouped_segments)
    /\ pc = "done" => Len(files) = Len(grouped_segments)
    /\ \A k \in 1..Len(files) :
          /\ files[k].name = <<"output_video_group_", ThreeDigits(k), ".mp4">>
          /\ Len(files[k].clips) = Len(grouped_segments[k])
          /\ \A j \in 1..Len(grouped_segments[k]) :
                files[k].clips[j] = <<"subclip", grouped_segments[k][j][1],
                                                 grouped_segments[k][j][2]>>
    /\ \A k, l \in 1..Len(files) : k # l => files[k].name # files[l].name

\* a finished export of twelve groups: the indices 001 to 012
C10_Witness ==
    /\ pc = "done"
    /\ Len(grouped_segments) = 12
    /\ Len(files) = 12
    /\ files[12].name = <<"output_video_group_", <<0, 1, 2>>, ".mp4">>

\* a finished export with a group of several segments
C10_WitnessMulti ==
    /\ pc = "done"
    /\ Len(files) = 2
    /\ Len(files[1].clips) = 2

------------------------------------------------------------------------------
(* The script with any chunk_size (specification SpecConfig) *)

\* line 53 with chunk_size = 0: the division duration / chunk_size raises
\* ZeroDivisionError, which nothing catches; the script ends
DetectRaise ==
    /\ pc = "scan"
    /\ chunk_size = 0
    /\ pc' = "raised"
    /\ UNCHANGED <<configVars, detectVars, audio_segments, grouped_segments,
                   export_i, files, combineVars, failed_group, loudnessVars>>

\* the state when detect_audio_segments is entered, chunk_size of either sign
InitConfig ==
    /\ pc = "scan"
    /\ video \in Videos
    /\ silence_threshold \in Thresholds
    /\ min_silence_duration \in 0..MaxMinSilence
    /\ chunk_size \in (0 - MaxChunkSize)..MaxChunkSize
    /\ minimum_silence_new_clip \in 0..MaxNewClipGap
    /\ segments = << >>
    /\ current_start = None
    /\ silence_accumulator = 0
    /\ chunk_count = 0
    /\ audio_segments = << >>
    /\ grouped_segments = << >>
    /\ export_i = 0
    /\ files = << >>
    /\ combine_in = << >>
    /\ combine_gap = 0
    /\ combined_once = << >>
    /\ combined_twice = << >>
    /\ progress = None
    /\ chunks = << >>
    /\ failed_group = 0
    /\ loud_frames = << >>
    /\ loud_divisor = 1
    /\ dB_original = None
    /\ dB_attenuated = None

NextConfig == Next \/ DetectRaise

SpecConfig == InitConfig /\ [][NextConfig]_vars

\* C11: with a non-positive chunk size the run ends in an error: no chunk is
\* analysed, detect never returns normally, the script never completes and no
\* file is written.
C11_InvalidConfigIsFatal ==
    chunk_size <= 0 =>
        /\ pc \in {"scan", "raised"}
        /\ chunk_count = 0
        /\ chunks = << >>
        /\ files = << >>

\* what the code does with chunk_size = 0: the run ends in an error
C11_ZeroChunkSizeRaises ==
    (chunk_size = 0 /\ pc # "scan") => (pc = "raised" /\ chunks = << >> /\ files = << >>)

------------------------------------------------------------------------------
(* The export with failing library calls (specification SpecExportFail) *)

\* a variant of the loop of lines 165-176 that catches the failure of an
\* iteration and goes on with the next group
ExportGroupRaisesAndContinues ==
    /\ pc = "export"
    /\ export_i < Len(grouped_segments)
    /\ failed_group' = export_i + 1
    /\ export_i' = export_i + 1
    /\ UNCHANGED <<pc, configVars, detectVars, audio_segments, grouped_segments,
                   files, combineVars, loudnessVars>>

\* an iteration of the loop of lines 165-176 in which video.subclip,
\* concatenate_videoclips or write_videofile raises: the loop has no handler,
\* the exception leaves the function and ends the script (line 187). The file
\* of this group is not counted as written.
ExportGroupRaises ==
    /\ pc = "export"
    /\ export_i < Len(grouped_segments)
    /\ failed_group' = export_i + 1
    /\ pc' = "raised"
    /\ UNCHANGED <<configVars, detectVars, audio_segments, grouped_segments,
                   export_i, files, combineVars, loudnessVars>>

NextExportFail == NextGroup \/ ExportGroupRaises

SpecExportFail == InitGroup /\ [][NextExportFail]_vars

\* C12: when the export of group k fails, the failure leaves the script (it is
\* not swallowed), the files of the groups before k are as written and no file
\* of k or of a later group exists.
C12_ExportFailureAborts ==
    failed_group # 0 =>
        /\ pc = "raised"
        /\ Len(files) = failed_group - 1
        /\ \A k \in 1..Len(files) :
              files[k] = [name  |-> OutputFilename(k - 1),
                          clips |-> CombinedClip(grouped_segments[k])]

\* the export of the second of three groups failed: one file, the run ended
C12_Witness ==
    /\ failed_group = 2
    /\ Len(grouped_segments) = 3
    /\ Len(files) = 1
    /\ pc = "raised"

------------------------------------------------------------------------------
(* audio_to_dB on chunks of its own (specification SpecLoudness) *)

\* the samples of a chunk multiplied by m
Amplify(frames, m) == [i \in 1..Len(frames) |-> frames[i] * m]

\* the samples of a chunk multiplied by k = 1/m (every sample a multiple of m)
Attenuate(frames, m) == [i \in 1..Len(frames) |-> frames[i] \div m]

\* the attenuation factors k = 1/2 and k = 1/10, as divisors
Divisors == {2, 10}

\* audio_to_dB is about to be called on a non-empty chunk whose samples are
\* multiples of the divisor
InitLoudness ==
    /\ pc = "loudness"
    /\ loud_divisor \in Divisors
    /\ \E base \in SeqsUpTo(Amplitudes, MaxFrames) \ {<< >>} :
          loud_frames = Amplify(base, loud_divisor)
    /\ dB_original = None
    /\ dB_attenuated = None
    /\ video = << >>
    /\ silence_threshold = 0
    /\ min_silence_duration = 0
    /\ chunk_size = 1
    /\ minimum_silence_new_clip = 0
    /\ segments = << >>
    /\ current_start = None
    /\ silence_accumulator = 0
    /\ chunk_count = 0
    /\ audio_segments = << >>
    /\ grouped_segments = << >>
    /\ export_i = 0
    /\ files = << >>
    /\ combine_in = << >>
    /\ combine_gap = 0
    /\ combined_once = << >>
    /\ combined_twice = << >>
    /\ progress = None
    /\ chunks = << >>
    /\ failed_group = 0

\* audio_to_dB of the chunk
EstimateOriginal ==
    /\ pc = "loudness"
    /\ dB_original' = audio_to_dB(loud_frames)
    /\ pc' = "loudness_scaled"
    /\ UNCHANGED <<configVars, detectVars, audio_segments, grouped_segments,
                   export_i, files, combineVars, failed_group, loud_frames,
                   loud_divisor, dB_attenuated>>

\* audio_to_dB of the chunk with every sample multiplied by k
EstimateAttenuated ==
    /\ pc = "loudness_scaled"
    /\ dB_attenuated' = audio_to_dB(Attenuate(loud_frames, loud_divisor))
    /\ pc' = "loudness_done"
    /\ UNCHANGED <<configVars, detectVars, audio_segments, grouped_segments,
                   export_i, files, combineVars, failed_group, loud_frames,
                   loud_divisor, dB_original>>

NextLoudness == EstimateOriginal \/ EstimateAttenuated

SpecLoudness == InitLoudness /\ [][NextLoudness]_vars

\* C13 as stated: for every chunk and every factor k with 0 < k < 1 the
\* loudness of the chunk scaled by k is lower than the loudness of the chunk.
C13_AttenuationLowersLoudness ==
    pc = "loudness_done" => dB_attenuated < dB_original

\* C13 amended: the loudness of the scaled chunk is lower when the chunk's rms
\* is not zero; for a chunk of zero rms both values are the floor,
\* 20*log10(1e-10) = -200 dB.
C13_AttenuationLowersNonZeroLoudness ==
    pc = "loudness_done" =>
        IF SumSquares(loud_frames) # 0
        THEN dB_attenuated < dB_original
        ELSE dB_attenuated = 0 - 200 /\ dB_original = 0 - 200

\* a chunk of three samples, one of them zero, halved
C13_Witness ==
    /\ pc = "loudness_done"
    /\ Len(loud_frames) = 3
    /\ loud_divisor = 2
    /\ \E i \in 1..3 : loud_frames[i] = 0
    /\ SumSquares(loud_frames) # 0
    /\ dB_attenuated < dB_original

------------------------------------------------------------------------------
(* Properties of the chunk scan (specification Spec) *)

\* a step that analyses one chunk
ScanStep == pc = "scan" /\ chunk_count' = chunk_count + 1

\* the start time of the chunk the next scan step analyses
StepStart == ArangeAt(chunk_count, chunk_size)

\* the chunk that starts at `start` has a loudness below the threshold
QuietAt(start) == ChunkDB(video, start, chunk_size) < silence_threshold

\* C14: a silent chunk adds chunk_size to the accumulator; if a segment is open
\* and the accumulator has thereby reached min_silence_duration, exactly one
\* segment (open start, start of this chunk) is appended, the accumulator is
\* reset and no segment is open; otherwise the list and the open start stay.
C14_SilentChunkStep ==
    [][(ScanStep /\ QuietAt(StepStart)) =>
         IF current_start # None
            /\ silence_accumulator + chunk_size >= min_silence_duration
         THEN /\ segments' = Append(segments, <<current_start, StepStart>>)
              /\ current_start' = None
              /\ silence_accumulator' = 0
         ELSE /\ silence_accumulator' = silence_accumulator + chunk_size
              /\ segments' = segments
              /\ current_start' = current_start]_vars

\* loud, silent, silent with a minimum of two chunks: the second silent chunk
\* reached the minimum exactly and closed (0, 2)
C14_Witness ==
    /\ pc = "scan"
    /\ chunk_size = 1
    /\ min_silence_duration = 2
    /\ chunk_count = 3
    /\ segments = << <<0, 2>> >>
    /\ current_start = None
    /\ silence_accumulator = 0

\* a segment start: the start of a non-silent chunk that is the first chunk or
\* directly follows a silent chunk
OpensSegment(start) ==
    /\ start \in ChunkStarts
    /\ ~QuietAt(start)
    /\ start = 0 \/ QuietAt(start - chunk_size)

\* every segment of the list starts where a segment can open
StartsOpenSegments(segs) == \A i \in 1..Len(segs) : OpensSegment(segs[i][1])

\* C15: a non-silent chunk resets the accumulator, opens a segment at its own
\* start iff none is open and leaves the closed segments alone; so every
\* segment, closed, open or returned, starts at a non-silent chunk that is the
\* first chunk or directly follows a silent one.
C15_LoudChunkStep ==
    [][/\ (ScanStep /\ ~QuietAt(StepStart)) =>
            /\ silence_accumulator' = 0
            /\ segments' = segments
            /\ current_start' =
                  (IF current_start = None THEN StepStart ELSE current_start)
       /\ StartsOpenSegments(segments')
       /\ StartsOpenSegments(audio_segments')
       /\ current_start' # None => OpensSegment(current_start')]_vars

\* a second segment opened after a closed one, and a later non-silent chunk
\* that left it open
C15_Witness ==
    /\ pc = "scan"
    /\ Len(segments) = 1
    /\ current_start # None
    /\ current_start > segments[1][2]
    /\ chunk_count * chunk_size > current_start + chunk_size
    /\ silence_accumulator = 0


\* the smallest n >= 1 with n * chunk_size >= min_silence_duration
MinSilentRun == Max(1, CeilDiv(min_silence_duration, chunk_size))

\* the chunk starting at `at` and the n - 1 chunks before it exist and are silent
SilentRunEndsAt(at, n) ==
    \A j \in 0..(n - 1) :
        /\ at - j * chunk_size >= 0
        /\ QuietAt(at - j * chunk_size)

\* every segment of the list that was closed before the end of the media was
\* closed by a run of MinSilentRun silent chunks
SplitsBySilentRuns(segs) ==
    \A i \in 1..Len(segs) :
        segs[i][2] < Duration(video) => SilentRunEndsAt(segs[i][2], MinSilentRun)

\* C16: a segment closed before the end of the media was closed at the start
\* of a silent chunk that ends an uninterrupted run of n silent chunks, n the
\* smallest integer >= 1 with n * chunk_size >= min_silence_duration.
C16_SplitOnlyBySilentRun ==
    SplitsBySilentRuns(segments) /\ SplitsBySilentRuns(audio_segments)

\* loud, silent, silent, loud with a minimum of two chunks: split at the
\* second silent chunk
C16_Witness ==
    /\ chunk_size = 1
    /\ min_silence_duration = 2
    /\ ~QuietAt(0) /\ QuietAt(1) /\ QuietAt(2) /\ ~QuietAt(3)
    /\ pc = "group"
    /\ audio_segments = << <<0, 2>>, <<3, 4>> >>

\* loud, silent, loud, silent with a minimum of two chunks: the two silent
\* chunks do not add up, nothing is split
C16_WitnessNoSplit ==
    /\ chunk_size = 1
    /\ min_silence_duration = 2
    /\ ~QuietAt(0) /\ QuietAt(1) /\ ~QuietAt(2) /\ QuietAt(3)
    /\ pc = "group"
    /\ audio_segments = << <<0, 4>> >>

\* C17: when the scan ends with a segment open, exactly one final segment
\* (open start, duration) is appended, also after trailing silent chunks
\* shorter than the minimum; with no segment open nothing is appended.
C17_FinalSegment ==
    [][(pc = "scan" /\ pc' = "group") =>
         /\ segments' = (IF current_start # None
                         THEN Append(segments, <<current_start, Duration(video)>>)
                         ELSE segments)
         /\ audio_segments' = segments']_vars

\* a returned scan that ended in a silent chunk below the minimum, with the
\* open segment closed at the duration
C17_Witness ==
    /\ pc = "group"
    /\ current_start # None
    /\ silence_accumulator > 0
    /\ silence_accumulator < min_silence_duration
    /\ audio_segments # << >>
    /\ audio_segments[Len(audio_segments)] = <<current_start, Duration(video)>>

\* the chunks visited so far are the first chunks of the partition of
\* [0, duration) into spans of chunk_size, the last one cut at the duration
ChunksPartition ==
    /\ Len(chunks) = chunk_count
    /\ Len(chunks) <= CeilDiv(Duration(video), chunk_size)
    /\ \A k \in 1..Len(chunks) :
          /\ chunks[k][1] = (k - 1) * chunk_size
          /\ chunks[k][1] < Duration(video)
          /\ chunks[k][2] = (IF k * chunk_size <= Duration(video)
                             THEN k * chunk_size ELSE Duration(video))
          /\ chunks[k][2] - chunks[k][1] < chunk_size
                => k = CeilDiv(Duration(video), chunk_size)
    /\ \A k \in 1..(Len(chunks) - 1) : chunks[k][2] = chunks[k + 1][1]

\* the scan is over: all of [0, duration) was visited, in ceil(duration /
\* chunk_size) chunks, and the last progress printed is 100.00%
ScanComplete ==
    /\ Len(chunks) = CeilDiv(Duration(video), chunk_size)
    /\ chunks # << >> =>
          /\ chunks[1][1] = 0
          /\ chunks[Len(chunks)][2] = Duration(video)
          /\ progress = 100 * 100

WellFormed(segs) ==
    /\ \A i \in 1..Len(segs) :
          0 <= segs[i][1] /\ segs[i][1] <= segs[i][2] /\ segs[i][2] <= Duration(video)
    /\ \A i \in 1..(Len(segs) - 1) :
          segs[i][1] <= segs[i + 1][1] /\ segs[i][2] <= segs[i + 1][1]

\* C20: at every point of the scan and in the returned list the segments are
\* well-formed: 0 <= start <= end <= duration, ordered by start, not
\* overlapping.
C20_SegmentsWellFormed ==
    WellFormed(segments) /\ WellFormed(audio_segments)

\* two segments returned, the first closed in the scan and the second at the
\* duration
C20_Witness ==
    /\ pc = "group"
    /\ Len(audio_segments) = 2
    /\ audio_segments[1][2] < audio_segments[2][1]
    /\ audio_segments[2][2] = Duration(video)

------------------------------------------------------------------------------
(* The grouper against a grouper that looks at its own group (SpecGroup) *)

RECURSIVE GroupByLastMember(_, _, _, _)
\* a grouper that measures the gap of the next segment against the last member
\* of the group under construction, and never looks back into the input list
GroupByLastMember(rest, grouped, current_group, threshold) ==
    IF rest = << >>
    THEN IF current_group # << >> THEN Append(grouped, current_group) ELSE grouped
    ELSE LET cur == Head(rest)
         IN  IF current_group = << >>
             THEN GroupByLastMember(Tail(rest), grouped, <<cur>>, threshold)
             ELSE IF cur[1] - current_group[Len(current_group)][2] > threshold
             THEN GroupByLastMember(Tail(rest), Append(grouped, current_group),
                                    <<cur>>, threshold)
             ELSE GroupByLastMember(Tail(rest), grouped,
                                    Append(current_group, cur), threshold)

\* the last member of the group that holds the i-th segment, among the first i
\* segments: the segment the group under construction ends with after step i
LastMemberAfter(groups, i) == Flatten(groups)[i]

\* C19: at every step i >= 1 the predecessor segments[i-1] is the last member
\* of the group under construction, so a grouper that measures the gap against
\* the current group's last member returns the same groups, for every list
\* (sorted or not) and every threshold.
C19_PredecessorIsLastMember ==
    GroupDone =>
        /\ grouped_segments =
              GroupByLastMember(audio_segments, << >>, << >>, minimum_silence_new_clip)
        /\ Len(Flatten(grouped_segments)) = Len(audio_segments)
        /\ \A i \in 1..(Len(audio_segments) - 1) :
              LastMemberAfter(grouped_segments, i) = audio_segments[i]

\* three segments in two groups, the first group with two members whose last
\* one is not its first
C19_Witness ==
    /\ pc = "export"
    /\ Len(audio_segments) = 3
    /\ Len(grouped_segments) = 2
    /\ Len(grouped_segments[1]) = 2
    /\ grouped_segments[1][1] # grouped_segments[1][2]
    /\ grouped_segments =
          GroupByLastMember(audio_segments, << >>, << >>, minimum_silence_new_clip)

====
